---------------------------- MODULE Spec2Model ----------------------------
(***************************************************************************)
(* Model of the Files-to-Prompt context generator                          *)
(* (context-generator-app.py and context-generator-app-uploader.py).       *)
(*                                                                         *)
(* The two scripts share parse_pdfs and combine_files_via_cli and differ   *)
(* in the "Generate Context File" handler; the variable version selects    *)
(* the script.  The file system is modelled by the set of directories and  *)
(* the set of files; the external tools (llama-parse, files-to-prompt) and *)
(* the operating system answer nondeterministically.                       *)
(***************************************************************************)
EXTENDS Integers, Sequences, FiniteSets, TLC

(***************************************************************************)
(* Bounds of the model.                                                    *)
(***************************************************************************)
\* largest number of PDF files in the PDF input directory at start
MaxPdfs == 3
\* largest number of entries of a directly requested directory list
MaxDirs == 2
\* largest number of files in one batch of uploads
MaxUploads == 2

(***************************************************************************)
(* File names.  A name is a base (0 is the empty base, a name that starts  *)
(* with a dot) followed by its extensions: "a.pdf" is base 1 with          *)
(* <<".pdf">>, ".pdf" is base 0 with <<".pdf">>.                            *)
(***************************************************************************)
Name(b, e) == [base |-> b, exts |-> e]

PdfNames ==
    { Name(1, <<".pdf">>), Name(2, <<".pdf">>),
      Name(0, <<".pdf">>), Name(0, <<".pdf", ".pdf">>) }

TxtName == Name(1, <<".txt">>)

\* Path.glob("*.pdf"): the name ends with ".pdf" (dot files included)
GlobPdf(n) == Len(n.exts) > 0 /\ n.exts[Len(n.exts)] = ".pdf"

\* Path.stem: the name without its last suffix; a leading dot starts no suffix
Stem(n) ==
    IF Len(n.exts) = 0 THEN n
    ELSE IF n.base = 0 /\ Len(n.exts) = 1 THEN n
    ELSE [n EXCEPT !.exts = SubSeq(n.exts, 1, Len(n.exts) - 1)]

\* out_fn = f"{base}.md"
OutName(n) == [Stem(n) EXCEPT !.exts = Append(Stem(n).exts, ".md")]

\* the order of sorted(): by the name's text ('.' sorts before letters, a
\* proper prefix before its extensions)
NameLess(m, n) ==
    \/ m.base < n.base
    \/ m.base = n.base /\ Len(m.exts) < Len(n.exts)

RECURSIVE SortedSeq(_)
SortedSeq(S) ==
    IF S = {} THEN <<>>
    ELSE LET least == CHOOSE x \in S : \A y \in S \ {x} : NameLess(x, y)
         IN  <<least>> \o SortedSeq(S \ {least})

(***************************************************************************)
(* Paths are sequences of components.                                      *)
(***************************************************************************)
DEFAULT_PARSED_PDF_OUTPUT_SUBDIR == "parsed_pdfs_streamlit"

PdfsPath == <<"pdfs_to_parse">>
TxtPath  == <<"txt_files">>
\* a path that is no directory and cannot be made one (its parent is a file)
BadPath  == <<"not_a_dir">>

\* os.path.join(dir, component)
Join(p, c) == Append(p, c)

\* PurePath.relative_to(p) succeeds on q: p is a leading part of q
IsRelativeTo(q, p) == Len(p) <= Len(q) /\ SubSeq(q, 1, Len(p)) = p

Creatable(p) == ~ IsRelativeTo(p, BadPath)

Prefixes(p) == { SubSeq(p, 1, k) : k \in 1..Len(p) }

\* Path.mkdir(parents=True, exist_ok=True), when it succeeds
MkdirP(ds, p) == ds \cup Prefixes(p)

\* shutil.rmtree(p), when it succeeds
RmtreeDirs(ds, p)  == { d \in ds : ~ IsRelativeTo(d, p) }
RmtreeFiles(fs, p) == { f \in fs : ~ IsRelativeTo(f.dir, p) }

File(d, n) == [dir |-> d, name |-> n]

\* the files directly in directory d
NamesIn(fs, d) == { f.name : f \in { g \in fs : g.dir = d } }

\* the files found by a recursive scan of d
FilesUnder(fs, d) == { f \in fs : IsRelativeTo(f.dir, d) }


(***************************************************************************)
(* Helper functions of the scripts.                                        *)
(***************************************************************************)
\* list_files(directory, "*.pdf"): [] when directory is no directory, else
\* the sorted files of the directory that match the pattern
list_files(ds, fs, d) ==
    IF d \notin ds THEN <<>>
    ELSE SortedSeq({ n \in NamesIn(fs, d) : GlobPdf(n) })

\* a clear_directory that only makes sure the directory exists
clear_directory_keep(ds, fs, p, osOk) ==
    IF osOk /\ Creatable(p)
    THEN [dirs |-> MkdirP(ds, p), files |-> fs, cleared |-> TRUE]
    ELSE [dirs |-> ds, files |-> fs, cleared |-> FALSE]

\* clear_directory(dir_path_str): removes and recreates the directory, or
\* creates it; osOk is whether the operating system carries the calls out.
\* The result is the new file system and the returned flag.
clear_directory(ds, fs, p, osOk) ==
    IF p \in ds
    THEN IF osOk /\ Creatable(p)
         THEN [dirs |-> MkdirP(RmtreeDirs(ds, p), p),
               files |-> RmtreeFiles(fs, p), cleared |-> TRUE]
         ELSE [dirs |-> ds, files |-> fs, cleared |-> FALSE]
    ELSE IF osOk /\ Creatable(p)
         THEN [dirs |-> MkdirP(ds, p), files |-> fs, cleared |-> TRUE]
         ELSE [dirs |-> ds, files |-> fs, cleared |-> FALSE]

(***************************************************************************)
(* State.                                                                  *)
(***************************************************************************)
VARIABLES
    version,       \* "app" or "uploader": the script that runs
    pdf_dir,       \* st.session_state.pdf_dir
    txt_dir,       \* st.session_state.txt_dir
    dirs,          \* the directories of the file system
    files,         \* the files of the file system
    pc,            \* the position of the script run
    caller,        \* "generate": the Generate handler; "direct": a direct call
    opt,           \* the selected processing option
    queue,         \* parse_pdfs: the PDFs still to process
    ok,            \* parse_pdfs: ok / success_count
    fail,          \* parse_pdfs: fail / failure_count
    parse_ret,     \* the value parse_pdfs returned
    parse_ok,      \* handler: parse_ok / parsing_step_ok
    successes,     \* handler: pdf_successes / successes
    stopped,       \* handler: st.stop() ended the script run
    dirs_to_scan,  \* the directory list given to combine_files_via_cli
    valid_dirs,    \* combine_files_via_cli: the directories kept
    combine_ret,   \* the status combine_files_via_cli returned
    combine_data,  \* the content combine_files_via_cli returned (<<>>: None)
    out_file,      \* the output file: "absent", "old" (of an earlier run), "new"
    inflight,      \* the external invocations that have not completed
    sg,            \* generate_expert_system_prompt: the module and arguments
    sg_ret,        \* the (prompt, error) it returned
    sg_calls,      \* the calls of genai.configure and generate_content it made
    up,            \* handle_upload: target, files given and left, saved, skipped
    up_ret,        \* the count handle_upload returned
    up_log,        \* handle_upload: the files the loop has processed
    chk,           \* history: what the checks of this run observed
    pre_out,       \* history: the parsed directory's files before it was cleared
    pre_pdfs,      \* history: the input PDFs when parse_pdfs was called
    listed,        \* history: the PDFs parse_pdfs listed
    log,           \* history: the parser invocations of this run
    f2p_runs,      \* history: the files-to-prompt invocations of this run
    resp,          \* history: what the call of the endpoint gave
    ctx_content,   \* app: st.session_state.ctx_content; uploader: final_context_content
    suggested_system_prompt,  \* app: st.session_state.suggested_system_prompt
    suggestion_error,         \* app: st.session_state.suggestion_error
    ctx_changed,   \* history: no suggestion was stored since ctx_content was assigned
    shown          \* history: what the preview of this script run displays

vars == << version, pdf_dir, txt_dir, dirs, files, pc, caller, opt, queue, ok,
           fail, parse_ret, parse_ok, successes, stopped, dirs_to_scan,
           valid_dirs, combine_ret, combine_data, out_file, inflight, sg, sg_ret,
           sg_calls, up, up_ret, up_log, chk, pre_out, pre_pdfs, listed, log,
           f2p_runs,
           resp ,
           ctx_content, suggested_system_prompt, suggestion_error, ctx_changed,
           shown >>

config  == << version, pdf_dir, txt_dir >>
fsys    == << dirs, files >>
parseSt == << queue, ok, fail, parse_ret >>
handSt  == << parse_ok, successes, stopped, dirs_to_scan >>
combSt  == << valid_dirs, combine_ret, combine_data, out_file >>
suggSt  == << sg, sg_ret, sg_calls >>
uploadSt == << up, up_ret, up_log >>
history == << chk, pre_out, pre_pdfs, listed, log, f2p_runs, resp, shown >>
session == << ctx_content, suggested_system_prompt, suggestion_error, ctx_changed >>

\* parsed_d = os.path.join(txt_d, DEFAULT_PARSED_PDF_OUTPUT_SUBDIR)
parsed_d == Join(txt_dir, DEFAULT_PARSED_PDF_OUTPUT_SUBDIR)

Options == { "TXT only", "PDF only", "Both" }

Ret(s, o, f) == [success |-> s, ok |-> o, fail |-> f]

\* a check's observation: "none" (not made), "yes" or "no"; run holds the
\* outcome of the run of files-to-prompt once it has ended
NoChk == [llama |-> "none", auth |-> "none", prep |-> "none", f2p |-> "none",
          outdir |-> "none", run |-> {}]

Seen(b) == IF b THEN "yes" ELSE "no"

\* the folder settings: the defaults, one folder set to a path that is no
\* directory, or the PDF folder set to the parsed-output folder
Configs ==
    { <<PdfsPath, TxtPath>>, <<BadPath, TxtPath>>, <<PdfsPath, BadPath>>,
      <<Join(TxtPath, DEFAULT_PARSED_PDF_OUTPUT_SUBDIR), TxtPath>> }

\* the directories the page creates when it is rendered
EnsureDirs(ds, ps) ==
    ds \cup UNION { Prefixes(p) : p \in { q \in ps : Creatable(q) } }

\* Optional[str]: <<>> is None, <<s>> is the string s
None == <<>>

Truthy(x) == x # None /\ x[1] # ""

InitWith(cfgs) ==
    /\ version \in { "app", "uploader" }
    /\ \E c \in cfgs : pdf_dir = c[1] /\ txt_dir = c[2]
    /\ dirs = EnsureDirs({}, { pdf_dir, txt_dir })
    /\ \E S \in SUBSET PdfNames :
         /\ Cardinality(S) <= MaxPdfs
         /\ files = { File(pdf_dir, n) : n \in IF pdf_dir \in dirs THEN S ELSE {} }
                      \cup { File(txt_dir, TxtName) : x \in IF txt_dir \in dirs THEN {1} ELSE {} }
    /\ pc = "idle"
    /\ caller = "generate"
    /\ opt = "Both"
    /\ queue = <<>>
    /\ ok = 0
    /\ fail = 0
    /\ parse_ret = Ret(TRUE, 0, 0)
    /\ parse_ok = TRUE
    /\ successes = 0
    /\ stopped = FALSE
    /\ dirs_to_scan = <<>>
    /\ valid_dirs = <<>>
    /\ combine_ret = FALSE
    /\ combine_data = <<>>
    /\ out_file = "absent"
    /\ inflight = {}
    /\ chk = NoChk
    /\ pre_out = {}
    /\ pre_pdfs = {}
    /\ listed = <<>>
    /\ log = <<>>
    /\ f2p_runs = <<>>
    /\ sg = [impl |-> "app", key |-> << >>, ctx |-> << >>, tmpl |-> ""]
    /\ sg_ret = << <<>>, <<>> >>
    /\ sg_calls = [configure |-> 0, generate |-> 0]
    /\ resp = {}
    /\ up = [target |-> << >>, given |-> << >>, queue |-> << >>,
             saved |-> 0, skipped |-> 0, entered |-> FALSE]
    /\ up_ret = 0
    /\ up_log = << >>
    /\ ctx_content = None
    /\ suggested_system_prompt = ""
    /\ suggestion_error = None
    /\ ctx_changed = TRUE
    /\ shown = "none"

Init == InitWith(Configs)

(***************************************************************************)
(* External invocations and the exceptions they raise.                     *)
(***************************************************************************)
\* the file the combined context is written to (final_out_path)
out_f == << "out_loc", "context_prompt_output.txt" >>

Invocation(tool, arg) == [tool |-> tool, arg |-> arg]

\* a call that returns while the child process is still running
CompletedNoWait(fl, inv) == fl

\* subprocess.run(...) and model.generate_content(...) are entered
Started(fl, inv) == fl \cup { inv }

\* they return, or raise, only when the invocation has ended: subprocess.run
\* waits for the child process and kills it at the timeout
Completed(fl, inv) == fl \ { inv }

\* the exception subprocess.run raises for an outcome ("none": it returned)
Raised(kind) ==
    CASE kind = "notfound" -> "FileNotFoundError"
      [] kind = "timeout"  -> "TimeoutExpired"
      [] kind = "error"    -> "PermissionError"
      [] OTHER             -> "none"

\* handlers that name two exceptions and have no catch-all
ParseHandlersNamed == { "FileNotFoundError", "TimeoutExpired" }

\* the except clauses around the run of the parser
ParseHandlers == { "FileNotFoundError", "TimeoutExpired", "Exception" }

\* the except clauses around the run of files-to-prompt and the read
CombineHandlers == { "FileNotFoundError", "TimeoutExpired", "Exception" }

\* an except clause matches the exception's class or a base class of it; all
\* the exceptions here derive from Exception
Caught(exc, handlers) == exc \in handlers \/ "Exception" \in handlers

(***************************************************************************)
(* parse_pdfs(pdf_input_dir, parsed_output_dir), called with pdf_dir and   *)
(* parsed_d.                                                               *)
(***************************************************************************)
\* the checks without the test of the input directory
PrecheckOkNoDir(onPath, auth, inputIsDir) == onPath /\ auth

\* the checks before anything is touched: check_command(LLAMA_PARSE_COMMAND),
\* check_llama_parse_auth(), pdf_in_path.is_dir()
PrecheckOk(onPath, auth, inputIsDir) == onPath /\ auth /\ inputIsDir

\* "if parsed_out_path.exists(): shutil.rmtree(parsed_out_path)" and
\* "parsed_out_path.mkdir(parents=True, exist_ok=True)"; prepared is FALSE
\* when an OSError was raised
PrepareOutput(ds, fs, p, osOk) ==
    IF osOk /\ Creatable(p)
    THEN [dirs |-> MkdirP(RmtreeDirs(ds, p), p),
          files |-> RmtreeFiles(fs, p), prepared |-> TRUE]
    ELSE [dirs |-> ds, files |-> fs, prepared |-> FALSE]

\* success by the exit code alone
CountsAsSuccessByCode(rc, outExists) == rc = 0

\* "if res.returncode == 0 and out_fp.exists(): ok+=1"
CountsAsSuccess(rc, outExists) == rc = 0 /\ outExists

\* an empty input directory reported as a failure
EmptyInputRetFailure == Ret(FALSE, 0, 0)

\* "if not pdfs: ... return True, 0, 0"
EmptyInputRet == Ret(TRUE, 0, 0)

\* a loop that no outcome ends
AbortsLoopNever(kind) == FALSE

\* "except FileNotFoundError: ... return False, ok, fail": the outcome that
\* ends the loop at once
AbortsLoop(kind) == kind = "notfound"

\* a summary that reports success whatever the failure count
ParseSummaryLenient(o, f) == Ret(TRUE, o, f)

\* the return after the loop: "if fail > 0: return False, ok, fail", else
\* "return True, ok, fail"
ParseSummary(o, f) == IF f > 0 THEN Ret(FALSE, o, f) ELSE Ret(TRUE, o, f)

\* what one run of the parser can do: exit with a code, time out, fail to
\* start with another error, or not be found; wrote is whether it left the
\* output file behind
Outcomes ==
    { [kind |-> "exit", rc |-> r, wrote |-> w] : r \in {0, 1}, w \in BOOLEAN }
    \cup { [kind |-> "timeout", rc |-> 1, wrote |-> w] : w \in BOOLEAN }
    \cup { [kind |-> "error", rc |-> 1, wrote |-> FALSE],
           [kind |-> "notfound", rc |-> 1, wrote |-> FALSE] }

\* parse_pdfs up to the loop and the start of the parser on the first PDF
ParseStart(onPath, auth, osOk) ==
    /\ pc = "parse_start"
    /\ chk' = [chk EXCEPT !.llama = Seen(onPath),
                          !.auth = IF onPath THEN Seen(auth) ELSE "none",
                          !.prep = IF PrecheckOk(onPath, auth, pdf_dir \in dirs)
                                   THEN Seen(PrepareOutput(dirs, files, parsed_d,
                                                           osOk).prepared)
                                   ELSE "none"]
    /\ pre_out' = NamesIn(files, parsed_d)
    /\ pre_pdfs' = { n \in NamesIn(files, pdf_dir) : GlobPdf(n) }
    /\ IF ~ PrecheckOk(onPath, auth, pdf_dir \in dirs)
       THEN /\ parse_ret' = Ret(FALSE, 0, 0)
            /\ pc' = "parse_ret"
            /\ UNCHANGED << dirs, files, queue, listed >>
       ELSE LET prep == PrepareOutput(dirs, files, parsed_d, osOk)
                pdfs == list_files(prep.dirs, prep.files, pdf_dir)
            IN  /\ dirs' = prep.dirs
                /\ files' = prep.files
                /\ IF ~ prep.prepared
                   THEN /\ parse_ret' = Ret(FALSE, 0, 0)
                        /\ pc' = "parse_ret"
                        /\ UNCHANGED << queue, listed >>
                   ELSE IF pdfs = <<>>
                   THEN /\ parse_ret' = EmptyInputRet
                        /\ pc' = "parse_ret"
                        /\ UNCHANGED << queue, listed >>
                   ELSE /\ queue' = pdfs
                        /\ listed' = pdfs
                        /\ pc' = "parse_loop"
                        /\ UNCHANGED parse_ret
    /\ inflight' = IF pc' = "parse_loop"
                   THEN Started(inflight, Invocation("llama-parse", Head(queue')))
                   ELSE inflight
    /\ ok' = 0
    /\ fail' = 0
    /\ UNCHANGED << config, caller, opt, handSt, combSt, suggSt, uploadSt, log, f2p_runs,
                    resp, session, shown >>

\* one pass of the loop: the run of the parser on the next PDF ends with
\* outcome o; the parser is started on the PDF after it, or after the last PDF
\* the function returns
ParseFile(o) ==
    /\ pc = "parse_loop"
    /\ queue # <<>>
    /\ LET pdf == Head(queue)
           out == File(parsed_d, OutName(pdf))
           fs2 == IF o.wrote THEN files \cup {out} ELSE files
           good == o.kind = "exit" /\ CountsAsSuccess(o.rc, out \in fs2)
           ok2 == IF good THEN ok + 1 ELSE ok
           fail2 == IF good \/ AbortsLoop(o.kind) THEN fail ELSE fail + 1
           done == Completed(inflight, Invocation("llama-parse", pdf))
       IN  /\ files' = fs2
           /\ log' = Append(log, [name |-> pdf, kind |-> o.kind, rc |-> o.rc,
                                  outExists |-> out \in fs2, counted |-> good])
           /\ IF o.kind # "exit" /\ ~ Caught(Raised(o.kind), ParseHandlers)
              THEN /\ pc' = "raised"
                   /\ inflight' = done
                   /\ UNCHANGED << queue, ok, fail, parse_ret >>
              ELSE /\ ok' = ok2
                   /\ fail' = fail2
                   /\ IF AbortsLoop(o.kind)
                      THEN /\ parse_ret' = Ret(FALSE, ok2, fail2)
                           /\ pc' = "parse_ret"
                           /\ inflight' = done
                           /\ UNCHANGED queue
                      ELSE /\ queue' = Tail(queue)
                           /\ IF Tail(queue) = <<>>
                              THEN /\ parse_ret' = ParseSummary(ok2, fail2)
                                   /\ pc' = "parse_ret"
                                   /\ inflight' = done
                              ELSE /\ pc' = "parse_loop"
                                   /\ inflight' =
                                        Started(done, Invocation("llama-parse",
                                                                 Head(Tail(queue))))
                                   /\ UNCHANGED parse_ret
    /\ UNCHANGED << config, dirs, caller, opt, handSt, combSt, suggSt, uploadSt, chk,
                    pre_out, pre_pdfs, listed, f2p_runs, resp, session, shown >>

(***************************************************************************)
(* combine_files_via_cli(dirs_to_scan, output_fp_str).                     *)
(***************************************************************************)
\* no filtering of the requested directories
ValidDirsAll(req, ds) == req

\* a loop that stops at the first directory it keeps
ValidDirsFirst(req, ds) ==
    IF \E i \in DOMAIN req : req[i] \in ds
    THEN << req[CHOOSE i \in DOMAIN req :
                  /\ req[i] \in ds
                  /\ \A j \in DOMAIN req : req[j] \in ds => i <= j] >>
    ELSE <<>>

\* the loop over dirs_to_scan: "if d_path.is_dir(): valid_dirs.append(...)"
RECURSIVE ValidDirs(_, _)
ValidDirs(req, ds) ==
    IF req = <<>> THEN <<>>
    ELSE IF Head(req) \in ds
         THEN <<Head(req)>> \o ValidDirs(Tail(req), ds)
         ELSE ValidDirs(Tail(req), ds)

\* the outcomes of reading the output file back: its text, which can be the
\* empty string, an IOError, or a UnicodeDecodeError (a ValueError) for bytes
\* that are no UTF-8
ReadResults == { "text", "empty", "IOError", "UnicodeDecodeError" }

\* f.read(): the string read (<<>>: nothing was read)
ReadText(r) ==
    CASE r = "text"  -> << "<documents></documents>" >>
      [] r = "empty" -> << "" >>
      [] OTHER       -> << >>

\* what one run of files-to-prompt can do: how it ends, whether it wrote the
\* output file, and what reading the file gives afterwards
CombineOutcomes ==
    { [kind |-> "exit", rc |-> 0, wrote |-> w, read |-> d] :
          w \in BOOLEAN, d \in ReadResults }
    \cup { [kind |-> "exit", rc |-> 1, wrote |-> w, read |-> "IOError"] :
          w \in BOOLEAN }
    \cup { [kind |-> k, rc |-> 1, wrote |-> FALSE, read |-> "IOError"] :
          k \in { "timeout", "error", "notfound" } }

\* what the function sees after the run with outcome o when the output file
\* was in state before: out_fp.exists(), and whose text a read gives
Observed(o, before) ==
    [kind |-> o.kind, rc |-> o.rc, wrote |-> o.wrote, read |-> o.read,
     outExists |-> o.wrote \/ before # "absent",
     source |-> IF o.wrote THEN "new" ELSE before]

\* success whatever the read of the output file gave
CombineSucceedsUnread(o) == o.kind = "exit" /\ o.rc = 0 /\ o.outExists

\* "if res.returncode == 0 and out_fp.exists()" and the read of the file
CombineSucceeds(o) ==
    o.kind = "exit" /\ o.rc = 0 /\ o.outExists /\ ReadText(o.read) # << >>

\* the exception raised inside the try of combine_files_via_cli and not
\* handled by the inner "except IOError" ("none": no such exception)
CombineRaised(o) ==
    IF o.kind # "exit" THEN Raised(o.kind)
    ELSE IF o.rc = 0 /\ o.outExists /\ o.read = "UnicodeDecodeError"
    THEN "UnicodeDecodeError"
    ELSE "none"

\* str(path): an argument string, not quoted
Arg(p) == [path |-> p, quoted |-> FALSE]

\* the path components with a character outside [A-Za-z0-9_@%+=:,./-]
UnsafeComponents == { "my txt" }

\* shlex.quote(s): s itself when it holds safe characters only, else s
\* wrapped in single quotes
ShlexQuote(a) ==
    IF \E i \in DOMAIN a.path : a.path[i] \in UnsafeComponents
    THEN [a EXCEPT !.quoted = TRUE]
    ELSE a

\* cmd, the argument vector given to subprocess.run
Command(valid, out) ==
    [tool |-> "files-to-prompt",
     dirs |-> [i \in DOMAIN valid |-> ShlexQuote(Arg(valid[i]))],
     opts |-> << "--cxml", "-o" >>,
     out  |-> ShlexQuote(Arg(out))]

\* "if combine_status: st.session_state.ctx_content = combined_data" and
\* "if combine_ok: final_context_content = combined_data"
Kept(status, data, cur) == IF status THEN data ELSE cur

\* Step 4, the preview: "if st.session_state.ctx_content: st.success(...)
\* else: st.warning(...)"; nothing is displayed after st.stop()
Preview(c, stop) ==
    IF stop THEN "none" ELSE IF Truthy(c) THEN "generated" ELSE "failed"

\* the handler from the return of the combination step (or from the step
\* that ended the run without it) to the preview
Render(status, data, stop) ==
    IF pc' = "preview" /\ caller = "generate"
    THEN /\ ctx_content' = Kept(status, data, ctx_content)
         /\ shown' = Preview(ctx_content', stop)
         /\ ctx_changed' = (ctx_changed \/ status)
         /\ UNCHANGED << suggested_system_prompt, suggestion_error >>
    ELSE UNCHANGED << session, shown >>

\* combine_files_via_cli up to the start of the tool
CombineStart(onPath, osOk) ==
    /\ pc = "combine_start"
    /\ LET valid == ValidDirs(dirs_to_scan, dirs)
           reach == onPath /\ dirs_to_scan # <<>> /\ valid # <<>>
       IN  /\ chk' = [chk EXCEPT !.f2p = Seen(onPath),
                                 !.outdir = IF reach THEN Seen(osOk) ELSE "none"]
           /\ IF reach /\ osOk
              THEN /\ valid_dirs' = valid
                   /\ f2p_runs' = Append(f2p_runs, Command(valid, out_f))
                   /\ inflight' = Started(inflight,
                                          Invocation("files-to-prompt", valid))
                   /\ pc' = "combine_run"
                   /\ UNCHANGED << combine_ret, combine_data >>
              ELSE /\ combine_ret' = FALSE
                   /\ combine_data' = <<>>
                   /\ pc' = "preview"
                   /\ UNCHANGED << valid_dirs, f2p_runs, inflight >>
    /\ Render(FALSE, None, stopped)
    /\ UNCHANGED << config, fsys, out_file, caller, opt, parseSt, handSt, suggSt,
                    uploadSt, pre_out, pre_pdfs, listed, log, resp >>

\* the run of the tool on valid_dirs ends with outcome o, and the return
CombineRun(o) ==
    /\ pc = "combine_run"
    /\ inflight' = Completed(inflight, Invocation("files-to-prompt", valid_dirs))
    /\ out_file' = IF o.wrote THEN "new" ELSE out_file
    /\ LET obs == Observed(o, out_file)
       IN  /\ chk' = [chk EXCEPT !.run = { obs }]
           /\ IF CombineRaised(obs) # "none"
                 /\ ~ Caught(CombineRaised(obs), CombineHandlers)
              THEN /\ pc' = "raised"
                   /\ UNCHANGED << combine_ret, combine_data >>
              ELSE /\ combine_ret' = CombineSucceeds(obs)
                   /\ combine_data' = IF CombineSucceeds(obs)
                                      THEN ReadText(obs.read) ELSE << >>
                   /\ pc' = "preview"
    /\ Render(combine_ret', combine_data', stopped)
    /\ UNCHANGED << config, fsys, caller, opt, parseSt, handSt, valid_dirs,
                    suggSt, uploadSt, pre_out, pre_pdfs, listed, log, f2p_runs,
                    resp >>

(***************************************************************************)
(* The "Generate Context File" handler of tab1.                            *)
(***************************************************************************)
\* a handler that parses the PDFs whatever the option
RunsParserAlways(o) == TRUE

\* "if opt in ['PDF only', 'Both']": Step 1 is run
RunsParser(o) == o \in { "PDF only", "Both" }

\* a handler that clears the context and keeps the suggestion and its error
GenerateResetContextOnly(prompt, err) ==
    [ctx |-> None, prompt |-> prompt, error |-> err]

\* the first statements of the handler: "st.session_state.ctx_content = None;
\* st.session_state.suggested_system_prompt = ''; st.session_state.
\* suggestion_error = None" (uploader: "final_context_content = None", the
\* other two are never assigned there)
GenerateReset(prompt, err) ==
    [ctx |-> None, prompt |-> "", error |-> None]

\* the button is pressed with option o selected; the app script renders the
\* sidebar, which creates the folders, before the handler runs
Generate(o) ==
    /\ pc = "idle"
    /\ opt' = o
    /\ caller' = "generate"
    /\ dirs' = IF version = "app" THEN EnsureDirs(dirs, { pdf_dir, txt_dir })
               ELSE dirs
    /\ pc' = IF RunsParser(o) THEN "parse_start" ELSE "step2"
    /\ LET s == GenerateReset(suggested_system_prompt, suggestion_error)
       IN  /\ ctx_content' = s.ctx
           /\ suggested_system_prompt' = s.prompt
           /\ suggestion_error' = s.error
    /\ ctx_changed' = TRUE
    /\ UNCHANGED << config, files, parseSt, handSt, combSt, inflight, suggSt, uploadSt,
                    history >>

\* a handler that never ends the script run after parse_pdfs
AppStopsNever(o, ret) == FALSE

\* app, after parse_pdfs: TRUE when st.stop() is called
AppStops(o, ret) == ~ ret.success /\ o = "PDF only"

\* app, after parse_pdfs: step_ok
AppStepOk(o, ret) == ~ (ret.ok = 0 /\ o = "PDF only")

\* a Step 1 that goes on to the combination whatever parse_pdfs returned
UploaderStep1Lenient(o, ret, pdfsNow, parsedIsDir) ==
    [ok |-> TRUE, dirs |-> IF parsedIsDir THEN << parsed_d >> ELSE << >>]

\* uploader, Step 1 after parse_pdfs: parsing_step_ok and the directory list
UploaderStep1(o, ret, pdfsNow, parsedIsDir) ==
    IF ~ ret.success
    THEN [ok |-> FALSE, dirs |-> <<>>]
    ELSE IF ret.ok = 0 /\ ret.fail = 0
    THEN [ok |-> ~ (pdfsNow /\ o = "PDF only"), dirs |-> <<>>]
    ELSE IF ret.ok > 0
    THEN IF parsedIsDir
         THEN [ok |-> TRUE, dirs |-> <<parsed_d>>]
         ELSE [ok |-> o # "PDF only", dirs |-> <<>>]
    ELSE [ok |-> TRUE, dirs |-> <<>>]

\* the handler between the return of parse_pdfs and Step 2
AfterParse ==
    /\ pc = "parse_ret"
    /\ caller = "generate"
    /\ successes' = parse_ret.ok
    /\ IF version = "app"
       THEN /\ parse_ok' = parse_ret.success
            /\ stopped' = AppStops(opt, parse_ret)
            /\ pc' = IF ~ AppStops(opt, parse_ret) /\ AppStepOk(opt, parse_ret)
                     THEN "step2" ELSE "preview"
            /\ UNCHANGED dirs_to_scan
       ELSE LET s1 == UploaderStep1(opt, parse_ret,
                          list_files(dirs, files, pdf_dir) # <<>>,
                          parsed_d \in dirs)
            IN  /\ parse_ok' = s1.ok
                /\ dirs_to_scan' = s1.dirs
                /\ pc' = IF s1.ok \/ opt = "TXT only" THEN "step2" ELSE "preview"
                /\ UNCHANGED stopped
    /\ Render(FALSE, None, version = "app" /\ AppStops(opt, parse_ret))
    /\ UNCHANGED << config, fsys, caller, opt, parseSt, combSt, inflight,
                    suggSt, uploadSt, chk, pre_out, pre_pdfs, listed, log, f2p_runs,
                    resp >>

\* app, Step 2: the target directory as a list (empty: no target)
AppTarget(o, txtIsDir, parsedIsDir, succ, cleared) ==
    IF o = "Both" THEN (IF txtIsDir THEN <<txt_dir>> ELSE <<>>)
    ELSE IF o = "PDF only"
    THEN (IF succ > 0 /\ parsedIsDir THEN <<parsed_d>> ELSE <<>>)
    ELSE (IF txtIsDir /\ cleared THEN <<txt_dir>> ELSE <<>>)

\* uploader, Step 2: TRUE when the TXT folder is the parent of the parsed
\* folder (parsed_dir_path.relative_to(txt_dir_path) raises no ValueError)
IsParentOfParsed(txt, parsed) == IsRelativeTo(parsed, txt)

InSeq(x, q) == \E i \in DOMAIN q : q[i] = x

\* uploader, Step 2: combination_step_possible and the directory list
UploaderStep2(o, lst, txtIsDir) ==
    IF o \notin { "TXT only", "Both" }
    THEN [possible |-> TRUE, dirs |-> lst]
    ELSE IF ~ txtIsDir
    THEN [possible |-> o # "TXT only", dirs |-> lst]
    ELSE IF ~ InSeq(txt_dir, lst) /\ ~ IsParentOfParsed(txt_dir, parsed_d)
    THEN [possible |-> TRUE, dirs |-> Append(lst, txt_dir)]
    ELSE [possible |-> TRUE, dirs |-> lst]

\* Step 2 of the handler, up to the call of combine_files_via_cli
Step2(osOk) ==
    /\ pc = "step2"
    /\ IF version = "app"
       THEN LET clr == IF opt = "TXT only" /\ txt_dir \in dirs
                       THEN clear_directory(dirs, files, parsed_d, osOk)
                       ELSE [dirs |-> dirs, files |-> files, cleared |-> FALSE]
                tgt == AppTarget(opt, txt_dir \in dirs, parsed_d \in dirs,
                                 successes, clr.cleared)
            IN  /\ dirs' = clr.dirs
                /\ files' = clr.files
                /\ dirs_to_scan' = tgt
                /\ pre_out' = IF opt = "TXT only" /\ txt_dir \in dirs
                              THEN NamesIn(files, parsed_d) ELSE pre_out
                /\ pc' = IF tgt # <<>> THEN "combine_start" ELSE "preview"
       ELSE LET s2 == UploaderStep2(opt, dirs_to_scan, txt_dir \in dirs)
            IN  /\ dirs_to_scan' = s2.dirs
                /\ pc' = IF s2.possible /\ s2.dirs # <<>>
                         THEN "combine_start" ELSE "preview"
                /\ UNCHANGED << fsys, pre_out >>
    /\ UNCHANGED pre_pdfs
    /\ Render(FALSE, None, stopped)
    /\ UNCHANGED << config, caller, opt, parseSt, parse_ok, successes, stopped,
                    combSt, inflight, suggSt, uploadSt, chk, listed, log, f2p_runs, resp >>

\* the rest of the script run: the preview, and in the uploader script the
\* upload tabs, which create the folders
Finish ==
    /\ pc = "preview"
    /\ pc' = "idle"
    /\ dirs' = IF version = "uploader" THEN EnsureDirs(dirs, { pdf_dir, txt_dir })
               ELSE dirs
    /\ caller' = "generate"
    /\ opt' = "Both"
    /\ queue' = <<>>
    /\ ok' = 0
    /\ fail' = 0
    /\ parse_ret' = Ret(TRUE, 0, 0)
    /\ parse_ok' = TRUE
    /\ successes' = 0
    /\ stopped' = FALSE
    /\ dirs_to_scan' = <<>>
    /\ valid_dirs' = <<>>
    /\ combine_ret' = FALSE
    /\ combine_data' = <<>>
    /\ out_file' = IF out_file = "new" THEN "old" ELSE out_file
    /\ chk' = NoChk
    /\ pre_out' = {}
    /\ pre_pdfs' = {}
    /\ listed' = <<>>
    /\ log' = <<>>
    /\ f2p_runs' = <<>>
    /\ resp' = {}
    /\ shown' = "none"
    /\ ctx_content' = IF version = "uploader" THEN None ELSE ctx_content
    /\ UNCHANGED << config, files, inflight, suggSt, uploadSt,
                    suggested_system_prompt, suggestion_error, ctx_changed >>

\* delete_file(filepath_str) on a PDF listed in tab2
DeleteFile(n) ==
    /\ pc = "idle"
    /\ InSeq(n, list_files(dirs, files, pdf_dir))
    /\ files' = files \ { File(pdf_dir, n) }
    /\ UNCHANGED << config, dirs, pc, caller, opt, parseSt, handSt, combSt,
                    inflight, suggSt, uploadSt, history, session >>

(***************************************************************************)
(* Direct calls of combine_files_via_cli with any directory list.          *)
(***************************************************************************)
RECURSIVE SeqsUpTo(_, _)
SeqsUpTo(S, n) ==
    IF n = 0 THEN { <<>> }
    ELSE SeqsUpTo(S, n - 1)
         \cup { Append(q, x) : q \in SeqsUpTo(S, n - 1), x \in S }

DirectCombine(req) ==
    /\ pc = "idle"
    /\ caller' = "direct"
    /\ dirs_to_scan' = req
    /\ pc' = "combine_start"
    /\ UNCHANGED << config, fsys, opt, parseSt, parse_ok, successes, stopped,
                    combSt, inflight, suggSt, uploadSt, history, session >>

(***************************************************************************)
(* generate_expert_system_prompt: the function of the app script, called   *)
(* with the context and the meta-prompt template, and the function of      *)
(* gemini_interface, called with the context alone.                        *)
(***************************************************************************)
\* str.strip() on the strings of the model
Strip(t) ==
    CASE t = "  " -> ""
      [] t = " <documents></documents> " -> "<documents></documents>"
      [] t = " You are an expert. " -> "You are an expert."
      [] OTHER -> t

Keys == { None, << "" >>, << "AIza" >> }

Contexts == { None, << "" >>, << "  " >>, << " <documents></documents> " >> }

\* meta-prompt templates: empty, without the placeholder, with it, and with
\* it and a second replacement field
Templates ==
    { "", "Analyze the text.", "Context: {context_snippet}",
      "Context: {context_snippet} {style}" }

\* "'{context_snippet}' in meta_prompt_template"
HasPlaceholder(t) ==
    t \in { "Context: {context_snippet}", "Context: {context_snippet} {style}" }

\* meta_prompt_template.format(context_snippet=...) raises a KeyError for a
\* replacement field it has no argument for
FormatRaises(t) == t = "Context: {context_snippet} {style}"

\* the messages of the exceptions generate_content can raise
ExcMsgs ==
    { "400 API key not valid. Please pass a valid API key.",
      "429 Quota exceeded for quota metric",
      "404 Model not found", "504 Deadline Exceeded", "" }

BlockReasons == { "SAFETY", "OTHER" }

\* what the call of the endpoint can give: a response with or without the
\* text attribute and with or without a block reason (<<>>: none), or an
\* exception
Responses ==
    { [kind |-> "response", hasText |-> h, text |-> t, block |-> b] :
          h \in BOOLEAN, t \in { "", "  ", " You are an expert. " },
          b \in { None } \cup { << r >> : r \in BlockReasons } }
    \cup { [kind |-> "raise", hasText |-> FALSE, text |-> m, block |-> None] :
          m \in ExcMsgs }

\* the first three checks with the context tested before the credential
SuggestPrecheckInputFirst(impl, key, ctx, tmpl) ==
    IF ~ Truthy(ctx) \/ Strip(ctx[1]) = ""
    THEN << "Input Error: Input context is empty." >>
    ELSE IF ~ Truthy(key)
    THEN IF impl = "app"
         THEN << "Config Error: Environment variable 'GEMINI_API_KEY' not set." >>
         ELSE << "Configuration Error: GEMINI_API_KEY not found, empty, or placeholder in GEMINI_API_KEY.py" >>
    ELSE IF impl = "app" /\ (tmpl = "" \/ ~ HasPlaceholder(tmpl))
    THEN << "Input Error: Meta-prompt template invalid (must contain '{context_snippet}')." >>
    ELSE None

\* the checks before the SDK is touched: the error message, or None
SuggestPrecheck(impl, key, ctx, tmpl) ==
    IF ~ Truthy(key)
    THEN IF impl = "app"
         THEN << "Config Error: Environment variable 'GEMINI_API_KEY' not set." >>
         ELSE << "Configuration Error: GEMINI_API_KEY not found, empty, or placeholder in GEMINI_API_KEY.py" >>
    ELSE IF ~ Truthy(ctx) \/ Strip(ctx[1]) = ""
    THEN << "Input Error: Input context is empty." >>
    ELSE IF impl = "app" /\ (tmpl = "" \/ ~ HasPlaceholder(tmpl))
    THEN << "Input Error: Meta-prompt template invalid (must contain '{context_snippet}')." >>
    ELSE None

\* f"Blocked ({reason})." and its two forms in gemini_interface
Blocked(impl, hasText, reason) ==
    IF impl = "app"
    THEN (IF reason = "SAFETY" THEN "Blocked (SAFETY)." ELSE "Blocked (OTHER).")
    ELSE IF hasText
    THEN (IF reason = "SAFETY"
          THEN "Content generation blocked due to safety filters (SAFETY)."
          ELSE "Content generation blocked due to safety filters (OTHER).")
    ELSE (IF reason = "SAFETY"
          THEN "Content generation blocked (SAFETY)."
          ELSE "Content generation blocked (OTHER).")

\* the except clause of the call: the message chosen from str(e).lower()
ApiError(impl, m) ==
    CASE m = "400 API key not valid. Please pass a valid API key." ->
           IF impl = "app"
           THEN "API Error: Invalid Google AI API Key (check env var)."
           ELSE "API Error: Invalid Google AI API Key. Please check GEMINI_API_KEY.py."
      [] m = "429 Quota exceeded for quota metric" ->
           IF impl = "app"
           THEN "API Error: Quota exceeded."
           ELSE "API Error: Quota exceeded. Check Google Cloud limits or try later."
      [] m = "404 Model not found" ->
           IF impl = "app"
           THEN "API Error: Model 'gemini-2.5-pro-exp-03-25' not found/denied."
           ELSE "API Error: Model 'gemini-2.5-pro-exp-03-25' not found or permission denied. Check model name and API key access."
      [] m = "504 Deadline Exceeded" -> "API Error: 504 Deadline Exceeded"
      [] OTHER -> "API Error: "

\* a response handling that returns whatever text the response holds
HandleResponseUnchecked(impl, r) ==
    IF r.kind = "raise" THEN << None, << ApiError(impl, r.text) >> >>
    ELSE << << Strip(r.text) >>, None >>

\* the value returned after the call of the endpoint: (prompt, error)
HandleResponse(impl, r) ==
    IF r.kind = "raise" THEN << None, << ApiError(impl, r.text) >> >>
    ELSE IF r.hasText
    THEN IF Strip(r.text) = ""
         THEN IF r.block # None
              THEN << None, << Blocked(impl, TRUE, r.block[1]) >> >>
              ELSE IF impl = "app"
              THEN << None, << "Error: Empty response from AI." >> >>
              ELSE << None, << "Error: Received an empty text response from the AI model." >> >>
         ELSE << << Strip(r.text) >>, None >>
    ELSE IF r.block # None
    THEN << None, << Blocked(impl, FALSE, r.block[1]) >> >>
    ELSE IF impl = "app"
    THEN << None, << "Error: Unexpected response from AI." >> >>
    ELSE << None, << "Error: Unexpected response structure from the AI model." >> >>

\* the except clause around the call of the endpoint and the response handling
SuggestHandlers == { "Exception" }

NoSg == [impl |-> "app", key |-> None, ctx |-> None, tmpl |-> ""]

NoCalls == [configure |-> 0, generate |-> 0]

\* the function is called
DirectSuggest(impl, key, ctx, tmpl) ==
    /\ pc = "idle"
    /\ caller' = "direct"
    /\ sg' = [impl |-> impl, key |-> key, ctx |-> ctx, tmpl |-> tmpl]
    /\ pc' = "suggest_start"
    /\ UNCHANGED << config, fsys, opt, parseSt, handSt, combSt, inflight,
                    sg_ret, sg_calls, uploadSt, history, session >>

\* generate_expert_system_prompt up to the call of the endpoint: the checks,
\* genai.configure (cfgOk: it raised nothing), the formatting of the prompt
SuggestStart(cfgOk) ==
    /\ pc = "suggest_start"
    /\ LET pre == SuggestPrecheck(sg.impl, sg.key, sg.ctx, sg.tmpl)
       IN  IF pre # None
           THEN /\ sg_ret' = << None, pre >>
                /\ pc' = "suggest_ret"
                /\ UNCHANGED << sg_calls, inflight >>
           ELSE IF ~ cfgOk
           THEN /\ sg_ret' = << None, << "API Config Error: " >> >>
                /\ sg_calls' = [sg_calls EXCEPT !.configure = @ + 1]
                /\ pc' = "suggest_ret"
                /\ UNCHANGED inflight
           ELSE IF sg.impl = "app" /\ FormatRaises(sg.tmpl)
           THEN /\ sg_ret' = << None, << "Meta-Prompt Formatting Error: 'style'" >> >>
                /\ sg_calls' = [sg_calls EXCEPT !.configure = @ + 1]
                /\ pc' = "suggest_ret"
                /\ UNCHANGED inflight
           ELSE /\ sg_calls' = [configure |-> sg_calls.configure + 1,
                                generate |-> sg_calls.generate + 1]
                /\ inflight' = Started(inflight,
                                       Invocation("generate_content", sg.ctx))
                /\ pc' = "suggest_call"
                /\ UNCHANGED sg_ret
    /\ UNCHANGED << config, fsys, caller, opt, parseSt, handSt, combSt, sg,
                    uploadSt, history, session >>

\* model.generate_content(...) ends with r, and the return
SuggestCall(r) ==
    /\ pc = "suggest_call"
    /\ inflight' = Completed(inflight, Invocation("generate_content", sg.ctx))
    /\ resp' = { r }
    /\ IF r.kind = "raise" /\ ~ Caught("GoogleAPIError", SuggestHandlers)
       THEN /\ pc' = "raised"
            /\ UNCHANGED sg_ret
       ELSE /\ sg_ret' = HandleResponse(sg.impl, r)
            /\ pc' = "suggest_ret"
    /\ UNCHANGED << config, fsys, caller, opt, parseSt, handSt, combSt, sg,
                    sg_calls, uploadSt, chk, pre_out, pre_pdfs, listed, log,
                    f2p_runs, session, shown >>

\* a handler that leaves the stored prompt and error as they are
SuggestResetNone(prompt, err) == [prompt |-> prompt, error |-> err]

\* the first statements of the Suggest handler: "st.session_state.
\* suggested_system_prompt = ''; st.session_state.suggestion_error = None"
SuggestReset(prompt, err) == [prompt |-> "", error |-> None]

\* the Suggest handler after the call: "if error_message: suggestion_error =
\* error_message / elif generated_prompt: suggested_system_prompt =
\* generated_prompt / else: suggestion_error = 'No prompt or error returned.'"
\* (the "except Exception" of the handler has nothing to catch:
\* generate_expert_system_prompt returns its errors)
StoreSuggestion(ret, prompt, err) ==
    IF Truthy(ret[2]) THEN [prompt |-> prompt, error |-> ret[2]]
    ELSE IF Truthy(ret[1]) THEN [prompt |-> ret[1][1], error |-> err]
    ELSE [prompt |-> prompt, error |-> << "No prompt or error returned." >>]

\* the Suggest button, displayed under "if st.session_state.ctx_content:",
\* is pressed with credential key and the template tmpl of the text area
SuggestClick(key, tmpl) ==
    /\ pc = "idle"
    /\ version = "app"
    /\ Truthy(ctx_content)
    /\ caller' = "suggest"
    /\ LET r == SuggestReset(suggested_system_prompt, suggestion_error)
       IN  /\ suggested_system_prompt' = r.prompt
           /\ suggestion_error' = r.error
    /\ sg' = [impl |-> "app", key |-> key, ctx |-> ctx_content, tmpl |-> tmpl]
    /\ pc' = "suggest_start"
    /\ UNCHANGED << config, fsys, opt, parseSt, handSt, combSt, inflight,
                    sg_ret, sg_calls, uploadSt, history, ctx_content, ctx_changed >>

\* the caller has the result; the Suggest handler stores it
SuggestDone ==
    /\ pc = "suggest_ret"
    /\ pc' = "idle"
    /\ caller' = "generate"
    /\ sg' = NoSg
    /\ sg_ret' = << None, None >>
    /\ sg_calls' = NoCalls
    /\ resp' = {}
    /\ IF caller = "suggest"
       THEN LET st == StoreSuggestion(sg_ret, suggested_system_prompt,
                                      suggestion_error)
            IN  /\ suggested_system_prompt' = st.prompt
                /\ suggestion_error' = st.error
                /\ ctx_changed' = FALSE
       ELSE UNCHANGED << suggested_system_prompt, suggestion_error, ctx_changed >>
    /\ UNCHANGED << config, fsys, opt, parseSt, handSt, combSt, inflight,
                    uploadSt, chk, pre_out, pre_pdfs, listed, log, f2p_runs,
                    ctx_content, shown >>

(***************************************************************************)
(* handle_upload(uploaded_files, target_directory), called by the upload   *)
(* callbacks (app script) and the upload tabs (uploader script).           *)
(***************************************************************************)
\* an uploaded file whose name is longer than the file system allows
LongName == Name(9, << ".pdf" >>)

\* the names a batch of uploads can hold
UploadNames == { Name(1, << ".pdf" >>), Name(2, << ".pdf" >>), LongName }

\* "if dest.exists()": Path.exists() re-raises every OSError but ENOENT,
\* ENOTDIR, EBADF and ELOOP, so it raises ENAMETOOLONG for a name too long
StatRaises(n) == n = LongName

\* what "open(dest, 'wb')" and "f.write(...)" can do for a name
WriteOutcomes(n) ==
    IF n = LongName THEN { "open_fails" }
    ELSE { "ok", "open_fails", "write_fails" }

NoUp == [target |-> << >>, given |-> << >>, queue |-> << >>,
         saved |-> 0, skipped |-> 0, entered |-> FALSE]

\* handle_upload up to the loop: the guards and target_path.mkdir; it is
\* called when the user has put the files ups into the widget (pc = "idle")
\* and when the rerun finds them there again
Upload(target, ups, osOk) ==
    /\ \/ pc = "idle"
       \/ pc = "upload_rerun" /\ target = up.target /\ ups = up.given
    /\ ups # << >>
    /\ caller' = "direct"
    /\ IF osOk /\ Creatable(target)
       THEN /\ dirs' = MkdirP(dirs, target)
            /\ up' = [target |-> target, given |-> ups, queue |-> ups,
                      saved |-> 0, skipped |-> 0, entered |-> TRUE]
            /\ pc' = "upload_loop"
            /\ UNCHANGED up_ret
       ELSE /\ up' = [target |-> target, given |-> ups, queue |-> ups,
                      saved |-> 0, skipped |-> 0, entered |-> FALSE]
            /\ up_ret' = 0
            /\ pc' = "upload_ret"
            /\ UNCHANGED dirs
    /\ UNCHANGED << config, files, opt, parseSt, handSt, combSt, inflight,
                    suggSt, up_log, history, session >>

\* one pass of the loop with outcome w of the write; an exception of
\* dest.exists() is handled by the outer "except OSError", which ends the loop
UploadFile(w) ==
    /\ pc = "upload_loop"
    /\ up.queue # << >>
    /\ LET n == Head(up.queue)
           dest == File(up.target, n)
       IN  IF StatRaises(n)
           THEN /\ up_ret' = up.saved
                /\ pc' = "upload_ret"
                /\ UNCHANGED << files, up, up_log >>
           ELSE /\ w \in WriteOutcomes(n)
                /\ files' = IF w = "open_fails" THEN files ELSE files \cup { dest }
                /\ up_log' = Append(up_log, [name |-> n, existed |-> dest \in files,
                                             warned |-> dest \in files,
                                             saved |-> w = "ok"])
                /\ up' = [up EXCEPT !.queue = Tail(@),
                                    !.saved = IF w = "ok" THEN @ + 1 ELSE @,
                                    !.skipped = IF w = "ok" THEN @ ELSE @ + 1]
                /\ IF Tail(up.queue) = << >>
                   THEN /\ up_ret' = up'.saved
                        /\ pc' = "upload_ret"
                   ELSE /\ pc' = "upload_loop"
                        /\ UNCHANGED up_ret
    /\ UNCHANGED << config, dirs, caller, opt, parseSt, handSt, combSt, inflight,
                    suggSt, history, session >>

\* uploader, tab2 and tab3: "if num_saved > 0: st.experimental_rerun()"; the
\* callbacks of the app script do not rerun
Reruns(v, num_saved) == v = "uploader" /\ num_saved > 0

\* the caller has the count: the script run ends, or it is run again with
\* the files still held by the file_uploader widget
UploadDone ==
    /\ pc = "upload_ret"
    /\ IF Reruns(version, up_ret)
       THEN /\ pc' = "upload_rerun"
            /\ up' = [up EXCEPT !.queue = up.given, !.saved = 0, !.skipped = 0,
                                !.entered = FALSE]
            /\ UNCHANGED caller
       ELSE /\ pc' = "idle"
            /\ up' = NoUp
            /\ caller' = "generate"
    /\ up_ret' = 0
    /\ up_log' = << >>
    /\ UNCHANGED << config, fsys, opt, parseSt, handSt, combSt, inflight,
                    suggSt, history, session >>

(***************************************************************************)
(* Specifications.                                                         *)
(***************************************************************************)
Next ==
    \/ \E o \in Options : Generate(o)
    \/ \E onPath \in BOOLEAN, auth \in BOOLEAN, osOk \in BOOLEAN :
          ParseStart(onPath, auth, osOk)
    \/ \E o \in Outcomes : ParseFile(o)
    \/ AfterParse
    \/ \E osOk \in BOOLEAN : Step2(osOk)
    \/ \E onPath \in BOOLEAN, osOk \in BOOLEAN : CombineStart(onPath, osOk)
    \/ \E o \in CombineOutcomes : CombineRun(o)
    \/ Finish
    \/ \E n \in PdfNames : DeleteFile(n)

Spec == Init /\ [][Next]_vars

NextCombine ==
    \/ \E req \in SeqsUpTo({ pdf_dir, txt_dir, parsed_d }, MaxDirs) :
          DirectCombine(req)
    \/ \E onPath \in BOOLEAN, osOk \in BOOLEAN : CombineStart(onPath, osOk)
    \/ \E o \in CombineOutcomes : CombineRun(o)
    \/ Finish
    \/ \E n \in PdfNames : DeleteFile(n)

\* the folder settings and a TXT folder whose name holds a space
InitCombine == InitWith(Configs \cup { << PdfsPath, << "my txt" >> >> })

SpecCombine == InitCombine /\ [][NextCombine]_vars

\* calls of generate_expert_system_prompt with any arguments
NextSuggest ==
    \/ \E key \in Keys, ctx \in Contexts, tmpl \in Templates :
          DirectSuggest("app", key, ctx, tmpl)
    \/ \E key \in Keys, ctx \in Contexts :
          DirectSuggest("gemini_interface", key, ctx, "")
    \/ \E cfgOk \in BOOLEAN : SuggestStart(cfgOk)
    \/ \E r \in Responses : SuggestCall(r)
    \/ SuggestDone

SpecSuggest == Init /\ [][NextSuggest]_vars

\* calls of handle_upload with any batch of up to MaxUploads files
NextUpload ==
    \/ \E target \in { pdf_dir, txt_dir }, ups \in SeqsUpTo(UploadNames, MaxUploads),
          osOk \in BOOLEAN : Upload(target, ups, osOk)
    \/ \E w \in { "ok", "open_fails", "write_fails" } : UploadFile(w)
    \/ UploadDone
    \/ \E n \in PdfNames : DeleteFile(n)

SpecUpload == Init /\ [][NextUpload]_vars

\* the script steps of an upload, which Streamlit runs to their end
UploadSteps ==
    \/ \E w \in { "ok", "open_fails", "write_fails" } : UploadFile(w)
    \/ UploadDone
    \/ \E osOk \in BOOLEAN : pc = "upload_rerun" /\ Upload(up.target, up.given, osOk)

SpecUploadFair == Init /\ [][NextUpload]_vars /\ WF_vars(UploadSteps)

\* the session of the app script: the Generate and Suggest buttons
MaxSessionPdfs == 1

InitSession ==
    /\ InitWith({ << PdfsPath, TxtPath >> })
    /\ version = "app"
    /\ Cardinality(files) <= MaxSessionPdfs + 1

NextSession ==
    \/ Next
    \/ \E key \in Keys, tmpl \in Templates : SuggestClick(key, tmpl)
    \/ \E cfgOk \in BOOLEAN : SuggestStart(cfgOk)
    \/ \E r \in Responses : SuggestCall(r)
    \/ SuggestDone

SpecSession == InitSession /\ [][NextSession]_vars

\* the Generate handler and the calls of generate_expert_system_prompt
NextCalls == Next \/ NextSuggest

SpecCalls == Init /\ [][NextCalls]_vars

(***************************************************************************)
(* Properties.                                                             *)
(***************************************************************************)
\* the parser invocation e ended with exit code 0 and its output file there
Succeeded(e) == e.kind = "exit" /\ e.rc = 0 /\ e.outExists

\* the invocations of the log that were counted as successes, as failures
CountedOk   == { i \in DOMAIN log : log[i].counted }
CountedFail == { i \in DOMAIN log : ~ log[i].counted /\ log[i].kind # "notfound" }

\* the names of the PDFs the parser was invoked on, in order
Invoked == [i \in DOMAIN log |-> log[i].name]

\* the PDFs of the input directory
InputPdfs == list_files(dirs, files, pdf_dir)

SeqToSet(q) == { q[i] : i \in DOMAIN q }

\* the .md files of the parsed-output directory
MdFiles ==
    { n \in NamesIn(files, parsed_d) :
        Len(n.exts) > 0 /\ n.exts[Len(n.exts)] = ".md" }

ToolAbsentInLoop == \E i \in DOMAIN log : log[i].kind = "notfound"

\* C1: in 'Both' mode, with the parsed-output directory nested in the
\* plaintext directory, the list submitted to the combination step is the
\* plaintext directory alone (never the parsed-output directory).
C1_BothSubmitsOnlyTxtDir ==
    (pc = "combine_start" /\ caller = "generate" /\ opt = "Both")
        => dirs_to_scan = <<txt_dir>>

\* C2: in 'TXT only' mode, when the concatenation tool is invoked on the
\* plaintext directory, no file is inside the parsed-PDF subdirectory.
C2_TxtOnlyScansNoParsedFile ==
    (pc = "combine_run" /\ caller = "generate" /\ opt = "TXT only"
        /\ InSeq(txt_dir, valid_dirs))
        => FilesUnder(files, parsed_d) = {}

\* C2 witness: the tool is invoked on the plaintext directory in 'TXT only'
\* mode after a parsed file of an earlier run was in the subdirectory.
C2_Witness ==
    /\ pc = "combine_run" /\ caller = "generate" /\ opt = "TXT only"
    /\ InSeq(txt_dir, valid_dirs)
    /\ pre_out # {}

\* C3: after every run of the parse step, whatever its outcome, a file that
\* was in the output directory before the run and is not <stem>.md of a PDF of
\* the current input set does not exist.
C3_StaleOutputNeverSurvives ==
    pc = "parse_ret" =>
        \A n \in pre_out :
            n \notin { OutName(q) : q \in SeqToSet(InputPdfs) }
                => File(parsed_d, n) \notin files

\* C4: after a parse run the .md files of the output directory are exactly
\* the <stem>.md of the PDFs counted as successes, one file per success.
C4_OutputIsExactlySuccesses ==
    pc = "parse_ret" =>
        /\ MdFiles = { OutName(log[i].name) : i \in CountedOk }
        /\ Cardinality(MdFiles) = parse_ret.ok

C6_MissingInputDirFails ==
    (pc = "parse_ret" /\ pdf_dir \notin dirs)
        => parse_ret = Ret(FALSE, 0, 0) /\ log = <<>>

\* C6 witness: the parse step returned with the tool and the credential file
\* present and the input directory missing.
C6_Witness ==
    /\ pc = "parse_ret" /\ pdf_dir \notin dirs
    /\ chk.llama = "yes" /\ chk.auth = "yes"

\* C7 as stated: for every input directory with zero PDF files the parse
\* step returns success=true, ok=0, fail=0.
C7_Original ==
    (pc = "parse_ret" /\ pdf_dir \in dirs /\ InputPdfs = <<>>)
        => parse_ret = Ret(TRUE, 0, 0)

\* C7 amended: for every input directory with zero PDF files, when the parser
\* tool and the credential file are present and the output directory could be
\* prepared, the parse step returns success=true, ok=0, fail=0.
C7_EmptyInputSucceeds ==
    (pc = "parse_ret" /\ pdf_dir \in dirs /\ InputPdfs = <<>>
        /\ chk.llama = "yes" /\ chk.auth = "yes" /\ chk.prep = "yes")
        => parse_ret = Ret(TRUE, 0, 0) /\ log = <<>>

\* C7 witness: the parse step returned on an existing input directory without
\* PDFs, the checks passed and the output directory prepared.
C7_Witness ==
    /\ pc = "parse_ret" /\ pdf_dir \in dirs /\ InputPdfs = <<>>
    /\ chk.llama = "yes" /\ chk.auth = "yes" /\ chk.prep = "yes"

\* C8: with the parser tool or the credential file absent at the start, the
\* parse step returns success=false with zero counts and no invocation; an
\* invocation that reports the tool as not found is the last one, and the step
\* returns success=false with the counts so far.
C8_MissingToolAborts ==
    /\ pc = "parse_ret" /\ (chk.llama = "no" \/ chk.auth = "no")
          => parse_ret = Ret(FALSE, 0, 0) /\ log = <<>>
    /\ \A i \in DOMAIN log :
          log[i].kind = "notfound" =>
              /\ i = Len(log)
              /\ pc # "parse_loop"
              /\ parse_ret = Ret(FALSE, Cardinality(CountedOk),
                                 Cardinality(CountedFail))

\* C8 witness: the tool is reported not found on the second of three PDFs,
\* after a success; the third is never processed.
C8_Witness ==
    /\ pc = "parse_ret" /\ Len(listed) = 3 /\ Len(log) = 2
    /\ Succeeded(log[1]) /\ log[2].kind = "notfound"
    /\ parse_ret = Ret(FALSE, 1, 0)

\* C9: a PDF is counted as a success exactly when the parser exited with
\* code 0 and <stem>.md exists afterwards; the counters count accordingly.
C9_SuccessIffExitZeroAndOutput ==
    /\ \A i \in DOMAIN log : log[i].counted <=> Succeeded(log[i])
    /\ pc \in { "parse_loop", "parse_ret" } /\ log # <<>> =>
          /\ ok = Cardinality({ i \in DOMAIN log : Succeeded(log[i]) })
          /\ fail = Cardinality({ i \in DOMAIN log :
                        ~ Succeeded(log[i]) /\ log[i].kind # "notfound" })

\* C9 witness: the parser exited with code 0 without its output file and the
\* PDF was counted as a failure.
C9_Witness ==
    /\ pc = "parse_ret" /\ Len(log) = 1
    /\ log[1].kind = "exit" /\ log[1].rc = 0 /\ ~ log[1].outExists
    /\ parse_ret = Ret(FALSE, 0, 1)

\* C10: every directory passed to the concatenation tool is a directory
\* when the combination step checks it.
C10_OnlyExistingDirsPassed ==
    pc = "combine_run" => \A i \in DOMAIN valid_dirs : valid_dirs[i] \in dirs

\* C10 witness: the tool is run although a requested directory does not
\* exist; that directory was dropped.
C10_Witness ==
    /\ pc = "combine_run"
    /\ \E i \in DOMAIN dirs_to_scan : dirs_to_scan[i] \notin dirs
    /\ valid_dirs # <<>>

\* the candidates of req that are directories, in the order of the request
ExistingInOrder(req) == SelectSeq(req, LAMBDA d : d \in dirs)

\* combine_files_via_cli was called and has returned
CombineReturned == pc = "preview" /\ chk.f2p # "none"

\* C11: when the tool is present, at least one candidate is a directory and
\* the output location can be created, combine_files_via_cli starts the tool
\* exactly once, on every existing candidate in request order and the
\* destination path; when no candidate is a directory it returns failure and
\* never starts the tool.
C11_CombineInvokesOnceOnExisting ==
    /\ Len(f2p_runs) <= 1
    /\ CombineReturned =>
         /\ ( chk.f2p = "yes" /\ chk.outdir = "yes"
              /\ ExistingInOrder(dirs_to_scan) # <<>> )
            => f2p_runs = << Command(ExistingInOrder(dirs_to_scan), out_f) >>
         /\ ExistingInOrder(dirs_to_scan) = <<>>
            => f2p_runs = <<>> /\ ~ combine_ret /\ combine_data = <<>>

\* a call with two candidates of which one was dropped and one was passed on
C11_Witness ==
    /\ CombineReturned
    /\ Len(dirs_to_scan) = 2
    /\ Len(f2p_runs) = 1
    /\ Len(f2p_runs[1].dirs) = 1
    /\ f2p_runs[1].dirs[1].path = dirs_to_scan[2]

\* C12: combine_files_via_cli returns (True, content) exactly when the tool
\* exited with code 0, the destination file exists and was read as text; a
\* tool that is not found, a non-zero exit, a timeout, a missing output file
\* and an unreadable output file each give (False, None).
C12_SuccessIffExitZeroAndReadable ==
    CombineReturned =>
        /\ combine_ret <=> \E o \in chk.run : /\ o.kind = "exit"
                                             /\ o.rc = 0
                                             /\ o.outExists
                                             /\ o.read \in { "text", "empty" }
        /\ combine_ret => combine_data # <<>>
        /\ ~ combine_ret => combine_data = <<>>

\* the tool exited with 0 and left a file that could not be decoded
C12_Witness ==
    /\ CombineReturned
    /\ \E o \in chk.run : /\ o.kind = "exit" /\ o.rc = 0 /\ o.outExists
                          /\ o.read = "UnicodeDecodeError"
    /\ ~ combine_ret
    /\ combine_data = <<>>

\* generate_expert_system_prompt has returned
SuggestReturned == pc = "suggest_ret"

\* the context is None, empty or whitespace
BlankContext == sg.ctx \in { None, << "" >>, << "  " >> }

\* C13: whatever the credential, the input, the response of the endpoint and
\* the error raised, generate_expert_system_prompt returns either a non-empty
\* prompt and no error or no prompt and a non-empty error message, and it
\* calls the endpoint at most once.
C13_ExactlyOneOfPromptOrError ==
    /\ sg_calls.generate <= 1
    /\ SuggestReturned =>
         \/ sg_ret[1] # None /\ sg_ret[1][1] # "" /\ sg_ret[2] = None
         \/ sg_ret[1] = None /\ sg_ret[2] # None /\ sg_ret[2][1] # ""

\* the endpoint answered with a text of blanks and no block reason
C13_Witness ==
    /\ SuggestReturned
    /\ sg_calls.generate = 1
    /\ \E r \in resp : /\ r.kind = "response" /\ r.hasText
                       /\ r.text = "  " /\ r.block = None
    /\ sg_ret[1] = None
    /\ sg_ret[2] # None

\* C14: a missing credential, then an empty or whitespace-only context, then
\* (app script) a template without {context_snippet} each give the error of
\* the first check that fails, and neither genai.configure nor the endpoint
\* is called.
C14_PrecheckErrorsBeforeSdk ==
    SuggestReturned =>
        /\ ~ Truthy(sg.key) =>
             /\ sg_ret[1] = None
             /\ sg_ret[2] \in
                  { << "Config Error: Environment variable 'GEMINI_API_KEY' not set." >>,
                    << "Configuration Error: GEMINI_API_KEY not found, empty, or placeholder in GEMINI_API_KEY.py" >> }
             /\ sg_calls = NoCalls
        /\ Truthy(sg.key) /\ BlankContext =>
             /\ sg_ret = << None, << "Input Error: Input context is empty." >> >>
             /\ sg_calls = NoCalls
        /\ ( Truthy(sg.key) /\ ~ BlankContext /\ sg.impl = "app"
             /\ sg.tmpl \in { "", "Analyze the text." } ) =>
             /\ sg_ret = << None, << "Input Error: Meta-prompt template invalid (must contain '{context_snippet}')." >> >>
             /\ sg_calls = NoCalls

\* all three checks fail and the error of the credential check is returned
C14_Witness ==
    /\ SuggestReturned
    /\ sg.impl = "app"
    /\ sg.key = << "" >>
    /\ sg.ctx = << "  " >>
    /\ sg.tmpl = "Analyze the text."
    /\ sg_ret[2] = << "Config Error: Environment variable 'GEMINI_API_KEY' not set." >>
    /\ sg_calls = NoCalls

\* C15: whatever the outcome of an external call (the parser, files-to-prompt,
\* the remote endpoint), tool not found, timeout, non-zero exit and any other
\* raised error included, the step that made the call goes on to its own
\* return (or, in the parser loop, to the next PDF) with a status result: no
\* step is left by an exception.
C15_NoExceptionPropagates ==
    [][ /\ pc' # "raised"
        /\ pc = "parse_loop" =>
             /\ pc' \in { "parse_loop", "parse_ret" }
             /\ pc' = "parse_ret" => parse_ret'.success \in BOOLEAN
        /\ pc = "combine_run" => pc' = "preview" /\ combine_ret' \in BOOLEAN
        /\ pc = "suggest_call" => pc' = "suggest_ret" /\ Len(sg_ret') = 2 ]_vars

\* parse_pdfs returned after a run of the parser that raised an error other
\* than not-found and timeout, and after one that timed out
C15_Witness ==
    /\ pc = "parse_ret"
    /\ \E i \in DOMAIN log : log[i].kind = "error"
    /\ \E i \in DOMAIN log : log[i].kind = "timeout"
    /\ ~ parse_ret.success
    /\ parse_ret.fail >= 2

\* C16: at most one external invocation is in flight at any moment: while
\* parse_pdfs loops it is the parser on the current PDF alone, every earlier
\* run having ended, and while files-to-prompt runs no parser is in flight.
C16_OneInvocationAtATime ==
    /\ Cardinality(inflight) <= 1
    /\ pc = "parse_loop" =>
         inflight = { Invocation("llama-parse", Head(queue)) }
    /\ pc = "combine_run" =>
         inflight = { Invocation("files-to-prompt", valid_dirs) }
    /\ pc = "suggest_call" =>
         inflight = { Invocation("generate_content", sg.ctx) }
    /\ pc \notin { "parse_loop", "combine_run", "suggest_call" } => inflight = {}

\* files-to-prompt runs after two runs of the parser, one of which timed out
C16_Witness ==
    /\ pc = "combine_run"
    /\ caller = "generate"
    /\ Len(log) >= 2
    /\ \E i \in DOMAIN log : log[i].kind = "timeout"
    /\ inflight = { Invocation("files-to-prompt", valid_dirs) }

\* handle_upload has returned
UploadReturned == pc = "upload_ret"

\* the passes of the loop that wrote their file
SavedEntries == { i \in DOMAIN up_log : up_log[i].saved }

\* C17: once the target directory is there, handle_upload tries every
\* uploaded file in turn, a file that cannot be saved does not stop the
\* remaining files (saved + skipped = number uploaded), the warning is given
\* exactly for the files whose destination existed just before the write, the
\* files written are in the target directory, and the returned count is the
\* number of files written.
C17_UploadProcessesEveryFile ==
    UploadReturned /\ up.entered =>
        /\ Len(up_log) = Len(up.given)
        /\ up.saved + up.skipped = Len(up.given)
        /\ up_ret = Cardinality(SavedEntries)
        /\ \A i \in DOMAIN up_log : up_log[i].warned <=> up_log[i].existed
        /\ \A i \in SavedEntries : File(up.target, up_log[i].name) \in files

\* the files under the directories submitted to combine_files_via_cli
ScannedFiles ==
    UNION { FilesUnder(files, dirs_to_scan[i]) : i \in DOMAIN dirs_to_scan }

\* parse_pdfs returned success with at least one parsed PDF
ParsedSome == parse_ret.success /\ parse_ret.ok >= 1

\* C18: uploader script, 'Both PDF and TXT files': when the TXT input folder
\* exists and parse_pdfs succeeded with at least one parsed PDF, the
\* directories submitted to combine_files_via_cli cover the Markdown files of
\* the parse and the files already in the TXT input folder.
C18_UploaderBothCoversTxtAndMarkdown ==
    ( pc = "combine_start" /\ caller = "generate" /\ version = "uploader"
      /\ opt = "Both" /\ txt_dir \in dirs /\ ParsedSome )
        => /\ FilesUnder(files, parsed_d) \subseteq ScannedFiles
           /\ { File(txt_dir, n) : n \in NamesIn(files, txt_dir) }
                 \subseteq ScannedFiles

\* C19: in 'PDF only' mode combine_files_via_cli is called, and the tool
\* started, only after parse_pdfs returned success with at least one parsed
\* PDF, and then on the parsed-output directory alone; in every other case
\* the run ends without the combination step.
C19_PdfOnlyCombinesParsedDirAfterSuccess ==
    ( caller = "generate" /\ opt = "PDF only" ) =>
        /\ ( pc \in { "combine_start", "combine_run" } \/ chk.f2p # "none" )
             => ParsedSome /\ dirs_to_scan = << parsed_d >>
        /\ f2p_runs # << >> => f2p_runs = << Command(<< parsed_d >>, out_f) >>
        /\ ( pc = "preview" /\ ~ ParsedSome )
             => f2p_runs = << >> /\ chk.f2p = "none"

\* the tool runs on the parsed-output directory after two PDFs were parsed
C19_Witness ==
    /\ caller = "generate"
    /\ opt = "PDF only"
    /\ pc = "combine_run"
    /\ Len(log) = 2
    /\ parse_ret = Ret(TRUE, 2, 0)
    /\ f2p_runs = << Command(<< parsed_d >>, out_f) >>

\* C20: uploader script, 'TXT files only': when the TXT input folder exists
\* it is added to the directories to combine, combine_files_via_cli is
\* called, and the tool (when present, with the output location there) is
\* started on that folder.
C20_UploaderTxtOnlyCombinesTxtDir ==
    ( pc = "preview" /\ caller = "generate" /\ version = "uploader"
      /\ opt = "TXT only" /\ txt_dir \in dirs )
        => /\ InSeq(txt_dir, dirs_to_scan)
           /\ chk.f2p # "none"
           /\ ( chk.f2p = "yes" /\ chk.outdir = "yes" )
                => f2p_runs = << Command(<< txt_dir >>, out_f) >>

\* the combination step of the Generate handler has been reached
CombinationReached ==
    pc \in { "step2", "combine_start", "combine_run" } \/ chk.f2p # "none"

\* C21: uploader script: the combination step is reached only if parse_pdfs,
\* when it was run, returned success, or 'TXT files only' is selected; in
\* 'Both PDF and TXT files' mode a failed parse means files-to-prompt is
\* never started in that Generate action.
C21_UploaderCombinesOnlyAfterParseOk ==
    ( version = "uploader" /\ caller = "generate" ) =>
        /\ CombinationReached => ( opt = "TXT only" \/ parse_ret.success )
        /\ ( opt = "Both" /\ pc = "preview" /\ ~ parse_ret.success )
             => f2p_runs = << >> /\ chk.f2p = "none"

\* 'Both' mode, one PDF parsed and one failed: the run ends without the tool
C21_Witness ==
    /\ version = "uploader"
    /\ caller = "generate"
    /\ opt = "Both"
    /\ pc = "preview"
    /\ parse_ret = Ret(FALSE, 1, 1)
    /\ f2p_runs = << >>

\* the parsed files this run of parse_pdfs wrote
WrittenThisRun ==
    { File(parsed_d, OutName(log[i].name)) :
          i \in { j \in DOMAIN log : log[j].outExists } }

\* C22: app script, 'Both': every file under the parsed-output subdirectory
\* at the moment files-to-prompt is started was written by parse_pdfs in the
\* same Generate action, also when parse_pdfs failed or aborted.
C22_AppBothScansNoStaleParsedFile ==
    ( pc = "combine_run" /\ caller = "generate" /\ version = "app"
      /\ opt = "Both" )
        => FilesUnder(files, parsed_d) \subseteq WrittenThisRun

\* C30: in 'TXT only' mode a Generate action never runs the parser and never
\* checks for the parser or its credential file.
C30_TxtOnlyNeverTouchesParser ==
    ( caller = "generate" /\ opt = "TXT only" ) =>
        /\ pc \notin { "parse_start", "parse_loop", "parse_ret" }
        /\ log = << >>
        /\ chk.llama = "none"
        /\ chk.auth = "none"
        /\ \A inv \in inflight : inv.tool # "llama-parse"

\* a 'TXT only' action whose combination succeeded
C30_Witness ==
    /\ caller = "generate"
    /\ opt = "TXT only"
    /\ pc = "preview"
    /\ combine_ret
    /\ chk.llama = "none"

\* C25: parse_pdfs deletes nothing but previous results: for every setting
\* of the PDF input folder and the parsed-output folder, every input PDF
\* that was there when parse_pdfs was called is still there when it returns.
C25_ParseKeepsInputPdfs ==
    pc = "parse_ret" => \A n \in pre_pdfs : File(pdf_dir, n) \in files

\* C23: a successful result of combine_files_via_cli is the text the tool
\* wrote during this invocation: an output file left over from an earlier run
\* is never read back and returned.
C23_SuccessReturnsFreshOutput ==
    ( CombineReturned /\ combine_ret ) =>
        \A o \in chk.run : o.wrote /\ o.source = "new"

\* C24: files-to-prompt is run with the argument vector <tool>, the resolved
\* path of each valid directory exactly as resolved, --cxml, -o and the
\* resolved destination path exactly as resolved, for every path string,
\* also one that holds a space or a shell-special character.
C24_ArgvHoldsPathsAsResolved ==
    \A k \in DOMAIN f2p_runs :
        LET cmd == f2p_runs[k]
        IN  /\ cmd.tool = "files-to-prompt"
            /\ cmd.opts = << "--cxml", "-o" >>
            /\ cmd.out = Arg(out_f)
            /\ pc = "combine_run" =>
                 /\ DOMAIN cmd.dirs = DOMAIN valid_dirs
                 /\ \A i \in DOMAIN valid_dirs : cmd.dirs[i] = Arg(valid_dirs[i])

\* the Generate handler has ended its script run
GenerateEnded == pc = "preview" /\ caller = "generate"

\* C28: whenever the combination step returned success, the Generate handler
\* keeps its content and the preview reports the context as generated, also
\* when the combined text is the empty string; the failure message is shown
\* only when no combination succeeded.
C28_SuccessIsKeptAndReported ==
    GenerateEnded =>
        /\ combine_ret => ( ctx_content = combine_data /\ shown = "generated" )
        /\ shown = "failed" => ~ combine_ret

\* a prompt or an error of a suggestion is stored
SuggestionStored == suggested_system_prompt # "" \/ suggestion_error # None

\* C27: app: a stored non-empty suggested prompt or suggestion error was
\* produced from the currently stored context: nothing has assigned the
\* context since, the context is non-empty, and the Suggest handler runs only
\* on a non-empty stored context, which it passes to the function.
C27_SuggestionIsOfStoredContext ==
    /\ SuggestionStored => ( Truthy(ctx_content) /\ ~ ctx_changed )
    /\ caller = "suggest" => ( Truthy(ctx_content) /\ sg.ctx = ctx_content )

C27_Witness ==
    /\ pc = "idle"
    /\ suggested_system_prompt = "You are an expert."
    /\ ctx_content = << "<documents></documents>" >>

\* C29: app: the stored suggestion error and a non-empty stored suggested
\* prompt are never both set: while the Suggest handler runs both are clear,
\* and once it has stored its result exactly one of them is set.
C29_NeverBothPromptAndError ==
    /\ ~ ( suggestion_error # None /\ suggested_system_prompt # "" )
    /\ caller = "suggest" => ~ SuggestionStored
    /\ ( ~ ctx_changed /\ caller # "suggest" ) => SuggestionStored

C29_Witness ==
    /\ pc = "idle"
    /\ ~ ctx_changed
    /\ suggestion_error # None
    /\ suggested_system_prompt = ""

\* C26: uploader: the handling of an upload terminates: once the files are
\* saved the page comes to rest, with no further rerun and no further save
\* without a new user action.
C26_UploadHandlingTerminates == ( pc = "upload_loop" ) ~> ( pc = "idle" )

=============================================================================
